---- MODULE Spec2Model ----
(***************************************************************************)
(* The resumable transfer pipeline of immich-importer: the checkpoint      *)
(* store (internal/state), the range downloader (internal/downloader), the *)
(* archive upload processor (internal/importer) and the CLI coordinator    *)
(* (main / runImport), together with the environment they run in: the      *)
(* Drive server, the Immich server, the local file system, SIGINT and      *)
(* process death.                                                          *)
(*                                                                         *)
(* Bytes are abstract units: one unit is what one Read of the response     *)
(* body delivers.  One process runs at a time; pc = "down" means that no   *)
(* process is running, and job then keeps the last in-memory image of the  *)
(* process that ended.                                                     *)
(***************************************************************************)
EXTENDS Integers, Sequences, FiniteSets, TLC

\* ------------------------------------------------------------------ bounds
NumFiles == 3
SrcLen == 2
NumEntries == 4
MaxRuns == 2
\* importer.go:119 checkpoints when UploadedPhotos % 100 == 0; the model keeps
\* the test and scales the modulus so that the branch is taken.
SaveCadence == 2
\* StartImport calls in one session of the GUI application.
MaxStarts == 2

\* ------------------------------------------------------- helper operators
Range(s) == {s[n] : n \in 1..Len(s)}

\* ------------------------------------------------ environment: Drive files
\* The Takeout files ListTakeoutFiles returns: id k, a name, and the bytes
\* the server holds for it.
DriveName(k) ==
    CASE k = 1 -> "takeout-001.zip"
      [] k = 2 -> "takeout-002.ZIP"
      [] k = 3 -> "takeout-003.tgz"
      [] OTHER -> "takeout-004.zip"

Src(k) == [j \in 1..SrcLen |-> 10 * k + j]

\* The size Drive reports: the real length, and 0 for file 2, for which it
\* reports none.
DriveSize(k) == IF k = 2 THEN 0 ELSE SrcLen

\* The entries of a Takeout archive, in enumeration order.
EntryName(n) ==
    CASE n = 1 -> "Photos/IMG_1.jpg"
      [] n = 2 -> "Photos/IMG_1.jpg.json"
      [] n = 3 -> "Photos/"
      [] n = 4 -> "Photos/VID_2.MOV"
      [] n = 5 -> "archive_browser.html"
      [] OTHER -> "Photos/IMG_3.heic"

ArchiveEntries == [n \in 1..NumEntries |-> EntryName(n)]

\* filepath.Ext on the names above.
Ext(name) ==
    CASE name \in {"takeout-001.zip", "takeout-004.zip"} -> ".zip"
      [] name = "takeout-002.ZIP" -> ".ZIP"
      [] name = "takeout-003.tgz" -> ".tgz"
      [] name = "Photos/IMG_1.jpg" -> ".jpg"
      [] name = "Photos/IMG_1.jpg.json" -> ".json"
      [] name = "Photos/VID_2.MOV" -> ".MOV"
      [] name = "Photos/IMG_3.heic" -> ".heic"
      [] name = "archive_browser.html" -> ".html"
      [] OTHER -> ""

\* strings.ToLower on the extensions above.
ToLower(s) ==
    CASE s = ".ZIP" -> ".zip"
      [] s = ".MOV" -> ".mov"
      [] OTHER -> s

\* zip.File.FileInfo().IsDir(): a directory entry's name ends in "/".
IsDir(name) == name = "Photos/"

\* filepath.Join(downloadDir, file.Name)
LocalPathOf(name) == "downloads/" \o name

Paths == {LocalPathOf(DriveName(k)) : k \in 1..NumFiles}

\* The path of a file whose name is empty is the download directory itself,
\* which GetDownloadDir has created.
IsDirPath(path) == path = LocalPathOf("")

\* What info.Size() gives for the directory: it depends on the platform.
DirSizes == {0, 1}

\* ------------------------------------------------------ internal/state
NilUploadState ==
    [nil |-> TRUE, TotalPhotos |-> 0, UploadedPhotos |-> 0, UploadedFiles |-> <<>>]

\* A nil *JobState.
NoJob ==
    [ID |-> 0, Status |-> "nil", Files |-> <<>>, UploadState |-> NilUploadState,
     LastError |-> ""]

\* state.New: id stands for the fresh uuid.
New(id) ==
    [ID |-> id, Status |-> "idle", Files |-> <<>>, UploadState |-> NilUploadState,
     LastError |-> ""]

\* A faulty AddFile that does not look for the id among the files.
AddFile_Appends(s, driveID, name, size) ==
    [s EXCEPT !.Files = Append(@,
        [DriveID |-> driveID, Name |-> name, Size |-> size,
         Downloaded |-> FALSE, LocalPath |-> "", BytesDownloaded |-> 0])]

\* AddFile, state.go:108-123
AddFile(s, driveID, name, size) ==
    IF \E n \in 1..Len(s.Files) : s.Files[n].DriveID = driveID
    THEN s
    ELSE [s EXCEPT !.Files = Append(@,
             [DriveID |-> driveID, Name |-> name, Size |-> size,
              Downloaded |-> FALSE, LocalPath |-> "", BytesDownloaded |-> 0])]

AbsentRecord == [kind |-> "absent", rec |-> NoJob]

\* What a process that dies inside os.WriteFile leaves: a truncated file.
TornRecord == [kind |-> "torn", rec |-> NoJob]

\* The state file after Save returns.
Save(s) == [kind |-> "ok", rec |-> s]

\* Load: (nil, nil) when the file is missing, (nil, err) when it does not
\* parse, (&state, nil) otherwise.
Load(d) ==
    CASE d.kind = "ok" -> [job |-> d.rec, err |-> FALSE]
      [] d.kind = "absent" -> [job |-> NoJob, err |-> FALSE]
      [] OTHER -> [job |-> NoJob, err |-> TRUE]

NoFile == [exists |-> FALSE, data |-> <<>>]

\* ------------------------------------------------------------------ state
VARIABLES
    fs,           \* the download directory: path -> [exists, data]
    disk,         \* the checkpoint file state.json
    job,          \* the process's *JobState
    pc,           \* where the process is: down, run, dl, read, zip, entry
    i,            \* index of the file the download or import loop is at
    e,            \* index into photoFiles of the archive being processed
    body,         \* bytes of the response body not read yet
    cancelled,    \* ctx.Done() is closed
    uploadedSet,  \* ImportFiles' uploadedSet
    runs,         \* processes started so far
    outcome,      \* how the last process ended
    req,          \* the request of the DownloadFile call in progress or just returned
    startKeys,    \* UploadedFiles when the current ImportFiles call began
    startTotal,   \* TotalPhotos when the current ImportFiles call began
    attempts,     \* uploads issued by the current ImportFiles call
    lastUp,       \* the last upload issued and the server's answer
    made,         \* jobs created so far (state.New)
    ui,           \* the program the process runs: cli or gui
    astate,       \* the GUI's a.state: nil, loaded (by startup), started (by StartImport)
    reset,        \* where a ResetState call is: idle, cleared, done (returned nil)
    starts        \* StartImport calls in this session of the GUI application

vars == <<fs, disk, job, pc, i, e, body, cancelled, uploadedSet, runs,
          outcome, req, startKeys, startTotal, attempts, lastUp, made, ui,
          astate, reset, starts>>

NoReq ==
    [file |-> 0, sent |-> FALSE, start |-> 0, range |-> FALSE, status |-> 0,
     flagged |-> FALSE]

NoUp == [key |-> "", resp |-> "none"]

\* ---------------------------------------------- environment: Drive server
\* A faulty DownloadFileRange that never sets the Range header.
RangeHeader_Never(startByte) == -1

\* DownloadFileRange (oauth.go): the Range header is set only for startByte > 0.
RangeHeader(startByte) == IF startByte > 0 THEN startByte ELSE -1

\* What the server may answer to GET files/k?alt=media with the given Range
\* header (-1: none): a transport error, an error status, the whole file with
\* 200 (a server may ignore Range), or with a header the part from that offset
\* with 206, or 416 when the offset is not inside the file.
ServerResponses(k, range) ==
    {[err |-> TRUE, status |-> 0, body |-> <<>>],
     [err |-> FALSE, status |-> 500, body |-> <<>>],
     [err |-> FALSE, status |-> 200, body |-> Src(k)]}
    \cup (IF range < 0 THEN {}
          ELSE IF range < SrcLen
          THEN {[err |-> FALSE, status |-> 206, body |-> SubSeq(Src(k), range + 1, SrcLen)]}
          ELSE {[err |-> FALSE, status |-> 416, body |-> <<>>]})

\* --------------------------------------------------- internal/downloader
\* A faulty loop test that sends no file to DownloadFile.
NeedsDownload_Never(file) == FALSE

\* A faulty loop test that sends every file to DownloadFile.
NeedsDownload_Always(file) == TRUE

\* runImport, importer.go:528: the loop calls DownloadFile for a file only when
\* its flag is not set.
NeedsDownload(file) == ~file.Downloaded

\* A faulty test that never takes the local file for complete.
AlreadyComplete_Never(file, startByte) == FALSE

\* downloader.go:43
AlreadyComplete(file, startByte) == file.Size > 0 /\ startByte >= file.Size

\* downloader.go:57
StatusAccepted(status) == status = 200 \/ status = 206

\* downloader.go:62-69: O_CREATE|O_WRONLY with O_APPEND when resuming, O_TRUNC otherwise.
OpenFile(st, startByte) ==
    IF startByte > 0 THEN [exists |-> TRUE, data |-> st.data]
    ELSE [exists |-> TRUE, data |-> <<>>]

\* The run ends: the CLI process exits (os.Exit, or a return from main); the
\* GUI's worker returns and the application stays up, unless the process died.
Halt(how) ==
    /\ pc' = IF ui = "gui" /\ how \in {"error", "complete"} THEN "app" ELSE "down"
    /\ outcome' = how
    /\ i' = 1
    /\ e' = 1
    /\ body' = <<>>
    /\ uploadedSet' = {}
    /\ cancelled' = FALSE

\* The coordinator's reference to the job is not nil: the CLI's jobState always,
\* the GUI's a.state unless ResetState has cleared it.
HoldsJob == ui = "cli" \/ astate # "nil"

\* The GUI's runImport stores the error in LastError (part_001:227, 243); the
\* CLI's does not.
ErrJob(s) == IF ui = "gui" THEN [s EXCEPT !.LastError = "failed"] ELSE s

\* A nil a.state is dereferenced: the goroutine panics and the process dies.
Panic(s) ==
    /\ job' = s
    /\ disk' = disk
    /\ Halt("crashed")

\* jobState.Save() as the last thing a step does: the file is replaced, or the
\* process dies inside os.WriteFile and leaves it truncated.
SaveOrDie(s, died) ==
    /\ job' = s
    /\ disk' = IF died THEN TornRecord ELSE Save(s)

\* A faulty coordinator that sets the flag and goes on without saving the job.
ReturnNil_NoSave(k, f) ==
    /\ job' = [job EXCEPT !.Files[k] = [f EXCEPT !.Downloaded = TRUE]]
    /\ disk' = disk
    /\ pc' = "dl"
    /\ i' = k + 1
    /\ body' = <<>>
    /\ UNCHANGED <<e, uploadedSet, cancelled, outcome>>

\* runImport, importer.go:538-539 and part_001:233-234: DownloadFile returned nil
\* for file k, left as f.
ReturnNil(k, f) ==
    LET s == [job EXCEPT !.Files[k] = [f EXCEPT !.Downloaded = TRUE]]
    IN  IF ~HoldsJob THEN Panic(s)
        ELSE \E died \in BOOLEAN :
               /\ SaveOrDie(s, died)
               /\ IF died THEN Halt("crashed")
                  ELSE /\ pc' = "dl"
                       /\ i' = k + 1
                       /\ body' = <<>>
                       /\ UNCHANGED <<e, uploadedSet, cancelled, outcome>>

\* A faulty coordinator that goes on to the next file when DownloadFile fails.
ReturnErr_GoesOn(k, f, how) ==
    /\ job' = [job EXCEPT !.Files[k] = f]
    /\ disk' = disk
    /\ pc' = "dl"
    /\ i' = k + 1
    /\ body' = <<>>
    /\ UNCHANGED <<e, uploadedSet, cancelled, outcome>>

\* runImport, importer.go:534-537, and main, importer.go:460-467; part_001:226-231:
\* DownloadFile returned an error for file k, left as f.
ReturnErr(k, f, how) ==
    LET s == [job EXCEPT !.Files[k] = f]
    IN  IF ~HoldsJob THEN Panic(s)
        ELSE \E died \in BOOLEAN :
               /\ SaveOrDie(ErrJob(s), died)
               /\ Halt(IF died THEN "crashed" ELSE how)

\* DownloadFile, downloader.go:27-74: from the call to the start of the copy
\* loop.  os.OpenFile fails on the directory (downloader.go:70-73).
DownloadFileEnter(k) ==
    LET file == job.Files[k]
        localPath == LocalPathOf(file.Name)
        dir == IsDirPath(localPath)
        st == IF dir THEN NoFile ELSE fs[localPath]
        exists == dir \/ st.exists
    IN  \E startByte \in (IF dir THEN DirSizes
                          ELSE {IF st.exists THEN Len(st.data) ELSE 0}) :
          LET f1 == [file EXCEPT !.LocalPath = localPath,
                                 !.BytesDownloaded = IF exists THEN startByte ELSE @]
          IN  IF exists /\ AlreadyComplete(f1, startByte)
              THEN /\ ReturnNil(k, [f1 EXCEPT !.Downloaded = TRUE])
                   /\ req' = [NoReq EXCEPT !.file = k, !.flagged = file.Downloaded]
                   /\ fs' = fs
              ELSE \E resp \in ServerResponses(file.DriveID, RangeHeader(startByte)) :
                     /\ req' = [file |-> k, sent |-> TRUE, start |-> startByte,
                                range |-> RangeHeader(startByte) >= 0,
                                status |-> resp.status,
                                flagged |-> file.Downloaded]
                     /\ IF resp.err \/ ~StatusAccepted(resp.status) \/ dir
                        THEN /\ ReturnErr(k, f1, "error")
                             /\ fs' = fs
                        ELSE /\ fs' = [fs EXCEPT ![localPath] = OpenFile(st, startByte)]
                             /\ job' = [job EXCEPT !.Files[k] = f1]
                             /\ body' = resp.body
                             /\ pc' = "read"
                             /\ UNCHANGED <<disk, i, e, uploadedSet, cancelled, outcome>>

\* ----------------------------------------------------- internal/importer
\* What the Immich server may answer to POST /api/assets.
UploadResponses ==
    {[name |-> "created", err |-> FALSE, status |-> 201, message |-> FALSE, duplicate |-> FALSE],
     [name |-> "duplicate", err |-> FALSE, status |-> 409, message |-> TRUE, duplicate |-> TRUE],
     [name |-> "rejected", err |-> FALSE, status |-> 400, message |-> TRUE, duplicate |-> FALSE],
     [name |-> "neterr", err |-> TRUE, status |-> 0, message |-> FALSE, duplicate |-> FALSE]}

\* A faulty uploadAsset that reports the duplicate answer as a failure.
uploadAsset_DuplicateFails(resp) ==
    IF resp.err THEN "err"
    ELSE IF resp.status # 201 /\ resp.status # 200 THEN "err" ELSE "nil"

\* A faulty uploadAsset that reports every upload as done.
uploadAsset_NeverFails(resp) == "nil"

\* uploadAsset, importer.go:184-207: "nil" or "err".
uploadAsset(resp) ==
    IF resp.err THEN "err"
    ELSE IF resp.status # 201 /\ resp.status # 200
         THEN IF resp.message /\ resp.duplicate THEN "nil" ELSE "err"
         ELSE "nil"

MediaExts ==
    {".jpg", ".jpeg", ".png", ".gif", ".webp", ".heic", ".heif", ".avif",
     ".mp4", ".mov", ".avi", ".mkv", ".webm", ".m4v", ".3gp",
     ".raw", ".cr2", ".nef", ".arw", ".dng", ".orf", ".rw2"}

\* A faulty isMediaFile that takes every entry for media.
isMediaFile_Any(name) == TRUE

isMediaFile(name) == ToLower(Ext(name)) \in MediaExts

\* processZipFile, importer.go:80-86
PhotoFiles == SelectSeq(ArchiveEntries, LAMBDA f : ~IsDir(f) /\ isMediaFile(f))

\* importer.go:99
FileID(zipPath, name) == zipPath \o ":" \o name

\* importer.go:63
IsZipName(name) == ToLower(Ext(name)) = ".zip"

\* A faulty InitUploadState that starts every ImportFiles call on a new ledger.
InitUploadState_AlwaysNew(us) ==
    [nil |-> FALSE, TotalPhotos |-> 0, UploadedPhotos |-> 0, UploadedFiles |-> <<>>]

\* ImportFiles, importer.go:44-48
InitUploadState(us) ==
    IF us.nil
    THEN [nil |-> FALSE, TotalPhotos |-> 0, UploadedPhotos |-> 0, UploadedFiles |-> <<>>]
    ELSE us

\* A faulty BuildUploadedSet that ignores the keys already recorded.
BuildUploadedSet_Forgets(uploadedFiles) == {}

\* ImportFiles, importer.go:50-54
BuildUploadedSet(uploadedFiles) == Range(uploadedFiles)

\* A faulty membership test that finds no entry recorded.
AlreadyUploaded_Never(set, fileID) == FALSE

\* processZipFile, importer.go:100
AlreadyUploaded(set, fileID) == fileID \in set

\* A faulty processZipFile that does not count the entries of the archive.
CountTotal_None(us, n) == us

\* processZipFile, importer.go:88
CountTotal(us, n) == [us EXCEPT !.TotalPhotos = @ + n]

\* A faulty MarkUploaded that records the key and leaves the count alone.
MarkUploaded_NoCount(us, fileID) ==
    [us EXCEPT !.UploadedFiles = Append(@, fileID)]

\* processZipFile, importer.go:115-116
MarkUploaded(us, fileID) ==
    [us EXCEPT !.UploadedFiles = Append(@, fileID), !.UploadedPhotos = @ + 1]

\* processZipFile, importer.go:119
SaveDue(us) == us.UploadedPhotos % SaveCadence = 0

\* zip.OpenReader on the local file of Drive file k: it succeeds on the bytes
\* of the archive, fails on a missing or truncated file, and may do either on a
\* file that holds more than the archive.
ZipOpens(st, k) ==
    IF st.exists /\ st.data = Src(k) THEN {TRUE}
    ELSE IF ~st.exists \/ Len(st.data) < SrcLen THEN {FALSE}
    ELSE BOOLEAN

\* ------------------------------------------------------------ coordinator
RECURSIVE Selected(_, _)
\* main, importer.go:446-450: a new job with the first n listed files selected.
Selected(id, n) ==
    IF n = 0 THEN New(id)
    ELSE AddFile(Selected(id, n - 1), n, DriveName(n), DriveSize(n))

upGhost == <<startKeys, startTotal, attempts, lastUp>>

gui == <<ui, astate, reset, starts>>

Init ==
    /\ fs = [p \in Paths |-> NoFile]
    /\ disk = AbsentRecord
    /\ job = NoJob
    /\ pc = "down"
    /\ i = 1
    /\ e = 1
    /\ body = <<>>
    /\ cancelled = FALSE
    /\ uploadedSet = {}
    /\ runs = 0
    /\ outcome = "none"
    /\ req = NoReq
    /\ startKeys = {}
    /\ startTotal = 0
    /\ attempts = {}
    /\ lastUp = NoUp
    /\ made = 0
    /\ ui = "cli"
    /\ astate = "nil"
    /\ reset = "idle"
    /\ starts = 0

\* main, importer.go:324-452: load the checkpoint (a Load error is dropped),
\* ask whether to resume an unfinished job, and create and save a new job when
\* there is none.
Main ==
    /\ pc = "down"
    /\ runs < MaxRuns
    /\ runs' = runs + 1
    /\ \E answer \in {"y", "n"} :
        LET loaded == Load(disk).job
            kept == IF loaded.Status \notin {"nil", "complete", "idle"} /\ answer = "n"
                    THEN NoJob ELSE loaded
            fresh == kept.Status = "nil" \/ Len(kept.Files) = 0
            js == IF fresh THEN Selected(made + 1, NumFiles) ELSE kept
        IN  /\ job' = js
            /\ disk' = IF fresh THEN Save(js) ELSE disk
            /\ made' = IF fresh THEN made + 1 ELSE made
    /\ ui' = "cli"
    /\ astate' = "nil"
    /\ reset' = "idle"
    /\ starts' = 0
    /\ pc' = "run"
    /\ outcome' = "none"
    /\ cancelled' = FALSE
    /\ req' = NoReq
    /\ startKeys' = {}
    /\ startTotal' = 0
    /\ attempts' = {}
    /\ lastUp' = NoUp
    /\ UNCHANGED <<fs, i, e, body, uploadedSet>>

\* runImport, importer.go:516-517
RunImportBegin ==
    /\ pc = "run"
    /\ ui = "cli"
    /\ \E died \in BOOLEAN :
        /\ SaveOrDie([job EXCEPT !.Status = "downloading"], died)
        /\ IF died THEN Halt("crashed")
           ELSE /\ pc' = "dl"
                /\ i' = 1
                /\ UNCHANGED <<e, body, uploadedSet, cancelled, outcome>>
    /\ UNCHANGED <<fs, runs, made, gui, req, upGhost>>

\* runImport, importer.go:521-523, and main, importer.go:460-464
DownloadLoopCancelled ==
    /\ pc = "dl"
    /\ i <= Len(job.Files)
    /\ cancelled
    /\ Halt("cancelled")
    /\ UNCHANGED <<fs, disk, job, runs, made, gui, req, upGhost>>

\* runImport, importer.go:527-531
DownloadLoopSkip ==
    /\ pc = "dl"
    /\ HoldsJob
    /\ i <= Len(job.Files)
    /\ ~cancelled
    /\ ~NeedsDownload(job.Files[i])
    /\ i' = i + 1
    /\ UNCHANGED <<fs, disk, job, pc, e, body, cancelled, uploadedSet, runs, made, gui,
                   outcome, req, upGhost>>

\* runImport, importer.go:533-534: the call of DownloadFile.
DownloadLoopCall ==
    /\ pc = "dl"
    /\ HoldsJob
    /\ i <= Len(job.Files)
    /\ ~cancelled
    /\ NeedsDownload(job.Files[i])
    /\ DownloadFileEnter(i)
    /\ UNCHANGED <<runs, made, gui, upGhost>>

\* A faulty copy loop that takes cancellation for the end of the body.
ReadCancelled_AsEOF ==
    /\ pc = "read"
    /\ cancelled
    /\ ReturnNil(i, [job.Files[i] EXCEPT !.Downloaded = TRUE])
    /\ req' = NoReq
    /\ UNCHANGED <<fs, runs, made, gui, upGhost>>

\* DownloadFile, downloader.go:78-82
ReadCancelled ==
    /\ pc = "read"
    /\ cancelled
    /\ ReturnErr(i, job.Files[i], "cancelled")
    /\ req' = NoReq
    /\ UNCHANGED <<fs, runs, made, gui, upGhost>>

\* DownloadFile, downloader.go:84-90: one Read that delivers a unit, written
\* to the local file and counted.
ReadChunk ==
    /\ pc = "read"
    /\ ~cancelled
    /\ body # <<>>
    /\ LET path == job.Files[i].LocalPath
       IN  fs' = [fs EXCEPT ![path].data = Append(@, Head(body))]
    /\ job' = [job EXCEPT !.Files[i].BytesDownloaded = @ + 1]
    /\ body' = Tail(body)
    /\ UNCHANGED <<disk, pc, i, e, cancelled, uploadedSet, runs, made, gui, outcome, req,
                   upGhost>>

\* DownloadFile, downloader.go:92-101: io.EOF ends the copy.
ReadEOF ==
    /\ pc = "read"
    /\ ~cancelled
    /\ body = <<>>
    /\ ReturnNil(i, [job.Files[i] EXCEPT !.Downloaded = TRUE])
    /\ req' = NoReq
    /\ UNCHANGED <<fs, runs, made, gui, upGhost>>

\* DownloadFile, downloader.go:86-88 and 95-97: a Read or Write error.
ReadFails ==
    /\ pc = "read"
    /\ ~cancelled
    /\ ReturnErr(i, job.Files[i], "error")
    /\ req' = [NoReq EXCEPT !.file = i, !.sent = TRUE]
    /\ UNCHANGED <<fs, runs, made, gui, upGhost>>

\* runImport, importer.go:544-557, and ImportFiles, importer.go:44-54
UploadBegin ==
    /\ pc = "dl"
    /\ HoldsJob
    /\ i > Len(job.Files)
    /\ LET saved == [job EXCEPT !.Status = "uploading"]
           us == InitUploadState(saved.UploadState)
       IN  \E died \in BOOLEAN :
             /\ disk' = IF died THEN TornRecord ELSE Save(saved)
             /\ IF died
                THEN /\ job' = saved
                     /\ Halt("crashed")
                     /\ UNCHANGED upGhost
                ELSE /\ job' = [saved EXCEPT !.UploadState = us]
                     /\ uploadedSet' = BuildUploadedSet(us.UploadedFiles)
                     /\ startKeys' = Range(us.UploadedFiles)
                     /\ startTotal' = us.TotalPhotos
                     /\ attempts' = {}
                     /\ lastUp' = NoUp
                     /\ pc' = "zip"
                     /\ i' = 1
                     /\ UNCHANGED <<e, body, cancelled, outcome>>
    /\ req' = NoReq
    /\ UNCHANGED <<fs, runs, made, gui>>

\* ImportFiles, importer.go:57-67: a file that is not processed.
ImportSkipFile ==
    /\ pc = "zip"
    /\ i <= Len(job.Files)
    /\ LET file == job.Files[i]
       IN  ~file.Downloaded \/ file.LocalPath = "" \/ ~IsZipName(file.Name)
    /\ i' = i + 1
    /\ UNCHANGED <<fs, disk, job, pc, e, body, cancelled, uploadedSet, runs, made, gui,
                   outcome, req, upGhost>>

\* A faulty loop that leaves the archive after its first entry.
After_LeavesArchive(k, n) ==
    IF n = 0 /\ Len(PhotoFiles) > 0
    THEN [pc |-> "entry", i |-> k, e |-> 1]
    ELSE [pc |-> "zip", i |-> k + 1, e |-> 1]

\* The loop position after entry n of the archive of file k.
After(k, n) ==
    IF n >= Len(PhotoFiles)
    THEN [pc |-> "zip", i |-> k + 1, e |-> 1]
    ELSE [pc |-> "entry", i |-> k, e |-> n + 1]

\* processZipFile, importer.go:74-88; when zip.OpenReader fails the error goes
\* up to runImport (importer.go:557-559, part_001:242-247).
ZipOpen ==
    /\ pc = "zip"
    /\ i <= Len(job.Files)
    /\ LET file == job.Files[i]
       IN  /\ file.Downloaded /\ file.LocalPath # "" /\ IsZipName(file.Name)
           /\ \E ok \in ZipOpens(fs[file.LocalPath], file.DriveID) :
                IF ok
                THEN /\ job' = [job EXCEPT !.UploadState = CountTotal(@, Len(PhotoFiles))]
                     /\ disk' = disk
                     /\ pc' = After(i, 0).pc
                     /\ i' = After(i, 0).i
                     /\ e' = After(i, 0).e
                     /\ UNCHANGED <<body, cancelled, uploadedSet, outcome>>
                ELSE IF ui = "cli"
                THEN /\ Halt("error")
                     /\ UNCHANGED <<job, disk>>
                ELSE IF ~HoldsJob THEN Panic(job)
                ELSE \E died \in BOOLEAN :
                       /\ SaveOrDie(ErrJob(job), died)
                       /\ Halt(IF died THEN "crashed" ELSE "error")
    /\ UNCHANGED <<fs, runs, made, gui, req, upGhost>>

\* processZipFile, importer.go:92-96
EntryCancelled ==
    /\ pc = "entry"
    /\ cancelled
    /\ Halt("cancelled")
    /\ UNCHANGED <<fs, disk, job, runs, made, gui, req, upGhost>>

\* processZipFile, importer.go:99-102
EntrySkip ==
    /\ pc = "entry"
    /\ ~cancelled
    /\ AlreadyUploaded(uploadedSet, FileID(job.Files[i].LocalPath, PhotoFiles[e]))
    /\ pc' = After(i, e).pc
    /\ i' = After(i, e).i
    /\ e' = After(i, e).e
    /\ UNCHANGED <<fs, disk, job, body, cancelled, uploadedSet, runs, made, gui, outcome,
                   req, upGhost>>

\* processZipFile, importer.go:104-121
EntryUpload ==
    /\ pc = "entry"
    /\ ~cancelled
    /\ LET fileID == FileID(job.Files[i].LocalPath, PhotoFiles[e])
       IN  /\ ~AlreadyUploaded(uploadedSet, fileID)
           /\ \E resp \in UploadResponses :
                /\ attempts' = attempts \cup {[key |-> fileID, ok |-> uploadAsset(resp) = "nil"]}
                /\ lastUp' = [key |-> fileID, resp |-> resp.name]
                /\ IF uploadAsset(resp) = "err"
                   THEN /\ UNCHANGED <<job, disk, uploadedSet, outcome, body, cancelled>>
                        /\ pc' = After(i, e).pc
                        /\ i' = After(i, e).i
                        /\ e' = After(i, e).e
                   ELSE LET us == MarkUploaded(job.UploadState, fileID)
                            js == [job EXCEPT !.UploadState = us]
                        IN  \E died \in BOOLEAN :
                              /\ job' = js
                              /\ IF ~SaveDue(us)
                                 THEN ~died /\ disk' = disk
                                 ELSE disk' = IF died THEN TornRecord ELSE Save(js)
                              /\ IF died THEN Halt("crashed")
                                 ELSE /\ uploadedSet' = uploadedSet \cup {fileID}
                                      /\ pc' = After(i, e).pc
                                      /\ i' = After(i, e).i
                                      /\ e' = After(i, e).e
                                      /\ UNCHANGED <<outcome, body, cancelled>>
    /\ UNCHANGED <<fs, runs, made, gui, req, startKeys, startTotal>>

\* ImportFiles returns nil: runImport, importer.go:561-565, and main, 469-471
ImportDone ==
    /\ pc = "zip"
    /\ HoldsJob
    /\ i > Len(job.Files)
    /\ \E died \in BOOLEAN :
        /\ SaveOrDie([job EXCEPT !.Status = "complete"], died)
        /\ Halt(IF died THEN "crashed" ELSE "complete")
    /\ UNCHANGED <<fs, runs, made, gui, req, upGhost>>

\* SIGINT or SIGTERM: main's signal goroutine cancels the context.
Cancel ==
    /\ pc # "down"
    /\ ui = "cli"
    /\ ~cancelled
    /\ cancelled' = TRUE
    /\ UNCHANGED <<fs, disk, job, pc, i, e, body, uploadedSet, runs, made, gui, outcome,
                   req, upGhost>>

\* The process is killed (SIGKILL, power loss, a second Ctrl+C).
Crash ==
    /\ pc # "down"
    /\ Halt("crashed")
    /\ req' = NoReq
    /\ startKeys' = {}
    /\ startTotal' = 0
    /\ attempts' = {}
    /\ lastUp' = NoUp
    /\ UNCHANGED <<fs, disk, job, runs, made, gui>>

Next ==
    \/ Main
    \/ RunImportBegin
    \/ DownloadLoopCancelled
    \/ DownloadLoopSkip
    \/ DownloadLoopCall
    \/ ReadCancelled
    \/ ReadChunk
    \/ ReadEOF
    \/ ReadFails
    \/ UploadBegin
    \/ ImportSkipFile
    \/ ZipOpen
    \/ EntryCancelled
    \/ EntrySkip
    \/ EntryUpload
    \/ ImportDone
    \/ Cancel
    \/ Crash

Spec == Init /\ [][Next]_vars

\* A caller of the exported DownloadFile other than runImport's loop: it calls
\* DownloadFile for a file whose Downloaded flag is set, and goes on like
\* runImport when the call returns.
DownloadFlaggedCall ==
    /\ pc = "dl"
    /\ i <= Len(job.Files)
    /\ ~cancelled
    /\ job.Files[i].Downloaded
    /\ DownloadFileEnter(i)
    /\ UNCHANGED <<runs, made, gui, upGhost>>

NextAPI ==
    \/ Next
    \/ DownloadFlaggedCall

SpecAPI == Init /\ [][NextAPI]_vars

\* A step the running CLI process takes by itself.
ProcessStep ==
    \/ RunImportBegin
    \/ DownloadLoopCancelled
    \/ DownloadLoopSkip
    \/ DownloadLoopCall
    \/ ReadCancelled
    \/ ReadChunk
    \/ ReadEOF
    \/ ReadFails
    \/ UploadBegin
    \/ ImportSkipFile
    \/ ZipOpen
    \/ EntryCancelled
    \/ EntrySkip
    \/ EntryUpload
    \/ ImportDone

\* The program is started for the first time, or again after its process died.
StartOrRestart == outcome \in {"none", "crashed"} /\ Main

\* The CLI under the scheduling it runs with: a process that can take a step
\* takes one, and the program is started again after its process died.  After
\* an exit of the program itself (os.Exit, return from main) nothing is due.
SpecLive ==
    /\ Init
    /\ [][Next]_vars
    /\ WF_vars(ProcessStep)
    /\ WF_vars(StartOrRestart)

\* ------------------------------------------------------ GUI application
\* The file selections the frontend may pass to StartImport.
Selections == {<<>>, <<1>>, <<2, 1>>}

RECURSIVE AddSelected(_, _)
\* StartImport, part_001:180-182: every id is added with no name and size 0.
AddSelected(s, ids) ==
    IF ids = <<>> THEN s
    ELSE AddSelected(AddFile(s, Head(ids), "", 0), Tail(ids))

\* App.startup, part_001:35-51: a.state is set when Load returned a record and
\* no error, and stays nil otherwise.
GuiStartup ==
    /\ pc = "down"
    /\ runs < MaxRuns
    /\ runs' = runs + 1
    /\ ui' = "gui"
    /\ LET l == Load(disk)
       IN  IF ~l.err /\ l.job.Status # "nil"
           THEN job' = l.job /\ astate' = "loaded"
           ELSE job' = NoJob /\ astate' = "nil"
    /\ reset' = "idle"
    /\ starts' = 0
    /\ pc' = "app"
    /\ outcome' = "none"
    /\ cancelled' = FALSE
    /\ req' = NoReq
    /\ startKeys' = {}
    /\ startTotal' = 0
    /\ attempts' = {}
    /\ lastUp' = NoUp
    /\ UNCHANGED <<fs, disk, i, e, body, uploadedSet, made>>

\* App.StartImport, part_001:166-189, called while no worker runs: the job is
\* made if a.state is nil, put in status downloading, given the selected
\* files and saved, and the worker goroutine is started.
GuiStartImport ==
    /\ ui = "gui"
    /\ pc = "app"
    /\ reset # "cleared"
    /\ astate = "nil" => made < MaxRuns
    /\ starts < MaxStarts
    /\ starts' = starts + 1
    /\ \E sel \in Selections, died \in BOOLEAN :
        LET base == IF astate = "nil" THEN New(made + 1) ELSE job
            js == AddSelected([base EXCEPT !.Status = "downloading"], sel)
        IN  /\ SaveOrDie(js, died)
            /\ IF died THEN Halt("crashed")
               ELSE /\ pc' = "dl"
                    /\ i' = 1
                    /\ outcome' = "none"
                    /\ UNCHANGED <<e, body, uploadedSet, cancelled>>
    /\ made' = IF astate = "nil" THEN made + 1 ELSE made
    /\ astate' = "started"
    /\ reset' = "idle"
    /\ UNCHANGED <<fs, runs, ui, req, upGhost>>

\* App.CancelImport, part_001:260-266
GuiCancelImport ==
    /\ ui = "gui"
    /\ pc # "down"
    /\ reset # "cleared"
    /\ astate # "nil"
    /\ \E died \in BOOLEAN :
        /\ SaveOrDie([job EXCEPT !.Status = "cancelled"], died)
        /\ IF died THEN Halt("crashed")
           ELSE UNCHANGED <<pc, i, e, body, uploadedSet, cancelled, outcome>>
    /\ UNCHANGED <<fs, runs, made, gui, req, upGhost>>

\* App.ResetState, part_001:270-272: state.Clear removes the file; when there
\* is none os.Remove fails and ResetState returns the error at once.
GuiResetClear ==
    /\ ui = "gui"
    /\ pc # "down"
    /\ reset # "cleared"
    /\ disk.kind # "absent"
    /\ disk' = AbsentRecord
    /\ reset' = "cleared"
    /\ UNCHANGED <<fs, job, pc, i, e, body, cancelled, uploadedSet, runs, outcome,
                   req, upGhost, made, ui, astate, starts>>

\* App.ResetState, part_001:273-274
GuiResetNil ==
    /\ ui = "gui"
    /\ pc # "down"
    /\ reset = "cleared"
    /\ astate' = "nil"
    /\ reset' = "done"
    /\ UNCHANGED <<fs, disk, job, pc, i, e, body, cancelled, uploadedSet, runs,
                   outcome, req, upGhost, made, ui, starts>>

\* App.shutdown, part_001:54-59: the window is closed and the process exits.
GuiShutdown ==
    /\ ui = "gui"
    /\ pc # "down"
    /\ reset # "cleared"
    /\ disk' = IF astate = "nil" THEN disk
               ELSE IF disk.kind = "ok" /\ disk.rec = job THEN disk
               ELSE Save(job)
    /\ pc' = "down"
    /\ outcome' = "closed"
    /\ i' = 1
    /\ e' = 1
    /\ body' = <<>>
    /\ uploadedSet' = {}
    /\ UNCHANGED <<fs, job, cancelled, runs, made, gui, req, upGhost>>

\* App.runImport, part_001:218-219, 238, 249: the worker dereferences a.state
\* after ResetState has set it to nil.
WorkerPanic ==
    /\ ui = "gui"
    /\ ~HoldsJob
    /\ pc = "dl" \/ (pc = "zip" /\ i > Len(job.Files))
    /\ Panic(job)
    /\ UNCHANGED <<fs, runs, made, gui, req, upGhost>>

\* The GUI application on its own state directory. Its files carry no name
\* (part_001:181), so every DownloadFile call of its worker fails and the
\* archive steps of ImportFiles are reached with no file only.
NextGUI ==
    \/ GuiStartup
    \/ GuiStartImport
    \/ DownloadLoopCall
    \/ UploadBegin
    \/ ImportDone
    \/ WorkerPanic
    \/ GuiCancelImport
    \/ GuiResetClear
    \/ GuiResetNil
    \/ GuiShutdown
    \/ Crash

SpecGUI == Init /\ [][NextGUI]_vars

\* Both programs on one state directory, one process at a time: the GUI can
\* take up a job the CLI made, whose files carry their names.
NextShared ==
    \/ Next
    \/ GuiStartup
    \/ GuiStartImport
    \/ GuiShutdown

SpecShared == Init /\ [][NextShared]_vars

\* ---------------------------------------------------------------- claims
FileIndexes == 1..Len(job.Files)

LocalFile(k) == fs[LocalPathOf(job.Files[k].Name)]

Ledger(s) == s.UploadState

Keys(s) == Range(s.UploadState.UploadedFiles)

\* The keys of the eligible entries of the archives among the job's files.
EligibleKeys ==
    {FileID(LocalPathOf(job.Files[k].Name), PhotoFiles[n]) :
        k \in {x \in FileIndexes : IsZipName(job.Files[x].Name)},
        n \in 1..Len(PhotoFiles)}

FailedKeys == {a.key : a \in {x \in attempts : ~x.ok}}

\* C1: once a FileUnit has Downloaded = TRUE, its local file holds exactly
\* the bytes of the source, in order, whatever interruptions and
\* re-invocations of DownloadFile came before.
C1_DownloadedIsByteIdentical ==
    \A k \in FileIndexes :
        job.Files[k].Downloaded =>
            /\ LocalFile(k).exists
            /\ LocalFile(k).data = Src(job.Files[k].DriveID)

\* C2, as stated: when the job has reached status complete, the keys of
\* UploadedFiles are exactly the eligible entries of all archives, each once.
C2_CompleteHasEveryEntry ==
    outcome = "complete" =>
        /\ Keys(job) = EligibleKeys
        /\ Len(Ledger(job).UploadedFiles) = Cardinality(Keys(job))

\* C2, amended: when the job has reached status complete, UploadedFiles holds
\* no key twice, only keys of eligible entries, and every eligible entry except
\* those whose upload failed in the ImportFiles call that completed.
C2_CompleteHasEveryEntryNotFailed ==
    outcome = "complete" =>
        /\ Len(Ledger(job).UploadedFiles) = Cardinality(Keys(job))
        /\ Keys(job) \subseteq EligibleKeys
        /\ EligibleKeys \subseteq Keys(job) \cup FailedKeys
        /\ Keys(job) \cap FailedKeys = {}

\* C2 witness: a job interrupted after part of its entries were checkpointed,
\* resumed, and completed with every eligible entry recorded.
C2_Witness ==
    /\ outcome = "complete"
    /\ runs >= 2
    /\ startKeys # {}
    /\ startKeys # EligibleKeys
    /\ attempts # {}
    /\ Keys(job) = EligibleKeys

\* C3: ImportFiles issues no upload for a key that was in UploadedFiles when
\* it started, and none at all when every eligible entry was recorded then.
C3_NoUploadOfRecordedEntry ==
    /\ \A a \in attempts : a.key \notin startKeys
    /\ (pc \in {"zip", "entry"} \/ outcome = "complete")
          /\ EligibleKeys \subseteq startKeys => attempts = {}

\* C3 witness: ImportFiles ran to the end on a job whose every eligible entry
\* was recorded at its start, and issued no upload.
C3_Witness ==
    /\ outcome = "complete"
    /\ EligibleKeys # {}
    /\ startKeys = EligibleKeys
    /\ attempts = {}

\* C4: a DownloadFile call on a FileUnit whose Downloaded flag is set sends no
\* request and changes neither the local files nor the FileUnit.
C4_DownloadOfDownloadedIsNoOp ==
    [][(req' # req /\ req'.flagged) =>
          /\ ~req'.sent
          /\ fs' = fs
          /\ job'.Files[req'.file] = job.Files[req'.file]]_vars

\* The counters of C5 in job image t are at least those in s.
CountersGrow(s, t) ==
    /\ \A k \in 1..Len(s.Files) :
          k <= Len(t.Files) /\ t.Files[k].BytesDownloaded >= s.Files[k].BytesDownloaded
    /\ Ledger(t).UploadedPhotos >= Ledger(s).UploadedPhotos
    /\ Len(Ledger(t).UploadedFiles) >= Len(Ledger(s).UploadedFiles)

\* C5, as stated: over calls, crashes and resumes of one job, no FileUnit's
\* BytesDownloaded, nor UploadedPhotos, nor the number of keys in
\* UploadedFiles ever decreases.
C5_CountersNeverDecrease ==
    [][job'.ID = job.ID => CountersGrow(job, job')]_vars

\* C5, amended: the counters never decrease while a process runs, and each
\* checkpoint written for the job holds counters at least those of the
\* checkpoint it replaces (a process that starts takes the checkpoint's
\* counters, which may be lower than those the process before it had reached).
C5_CountersGrowInRunAndOnDisk ==
    [][/\ (pc # "down" /\ job'.ID = job.ID) => CountersGrow(job, job')
       /\ (disk.kind = "ok" /\ disk'.kind = "ok" /\ disk'.rec.ID = disk.rec.ID)
             => CountersGrow(disk.rec, disk'.rec)]_vars

\* C5 witness: a resumed process whose counters have grown past the
\* checkpoint it started from.
C5_Witness ==
    /\ runs >= 2
    /\ pc = "entry"
    /\ disk.kind = "ok"
    /\ disk.rec.ID = job.ID
    /\ Ledger(disk.rec).UploadedPhotos >= 1
    /\ Ledger(job).UploadedPhotos > Ledger(disk.rec).UploadedPhotos
    /\ \E k \in FileIndexes : job.Files[k].BytesDownloaded > 0

\* UploadedPhotos is the number of distinct keys of UploadedFiles.
LedgerConsistent(s) ==
    Ledger(s).UploadedPhotos = Cardinality(Keys(s))

\* C6, as stated: UploadedPhotos is the number of distinct keys of
\* UploadedFiles in every state, and no key ever leaves UploadedFiles.
C6_LedgerConsistentKeysKept ==
    /\ []LedgerConsistent(job)
    /\ [][job'.ID = job.ID => Keys(job) \subseteq Keys(job')]_vars

\* C6, amended: UploadedPhotos is the number of distinct keys of UploadedFiles
\* in every state, in memory and in the checkpoint; no key leaves UploadedFiles
\* while a process runs, and none leaves the checkpoint's UploadedFiles when
\* it is rewritten (a process that starts takes the checkpoint's keys).
C6_LedgerConsistentKeysKeptInRunAndOnDisk ==
    /\ [](LedgerConsistent(job) /\ LedgerConsistent(disk.rec))
    /\ [][/\ (pc # "down" /\ job'.ID = job.ID) => Keys(job) \subseteq Keys(job')
          /\ (disk.kind = "ok" /\ disk'.kind = "ok" /\ disk'.rec.ID = disk.rec.ID)
                => Keys(disk.rec) \subseteq Keys(disk'.rec)]_vars

\* C6 witness: ImportFiles has returned because of cancellation after it
\* recorded uploads.
C6_Witness ==
    /\ outcome = "cancelled"
    /\ job.Status = "uploading"
    /\ Ledger(job).UploadedPhotos >= 1
    /\ LedgerConsistent(job)

\* C7: a FileUnit with Size > 0 never has BytesDownloaded > Size.
C7_BytesWithinSize ==
    \A k \in FileIndexes :
        job.Files[k].Size > 0 => job.Files[k].BytesDownloaded <= job.Files[k].Size

\* C8: a FileUnit with Downloaded = TRUE and Size > 0 has BytesDownloaded =
\* Size, and its local file holds Size bytes.
C8_DownloadedHasSizeBytes ==
    \A k \in FileIndexes :
        (job.Files[k].Downloaded /\ job.Files[k].Size > 0) =>
            /\ job.Files[k].BytesDownloaded = job.Files[k].Size
            /\ Len(LocalFile(k).data) = job.Files[k].Size

\* C9: an upload answered with the duplicate condition is recorded like a
\* successful one: the key is in UploadedFiles, UploadedPhotos is one more, and
\* the loop goes on to the next entry.
C9_DuplicateIsSuccess ==
    [][(lastUp' # lastUp /\ lastUp'.resp = "duplicate") =>
          /\ lastUp'.key \notin Keys(job)
          /\ lastUp'.key \in Keys(job')
          /\ Ledger(job').UploadedPhotos = Ledger(job).UploadedPhotos + 1
          /\ \/ outcome' = "crashed"
             \/ /\ pc' = After(i, e).pc
                /\ i' = After(i, e).i
                /\ e' = After(i, e).e]_vars

\* C9 witness: the last upload was answered duplicate, its key is recorded and
\* the loop is at the next entry.
C9_Witness ==
    /\ lastUp.resp = "duplicate"
    /\ lastUp.key \in Keys(job)
    /\ pc = "entry"
    /\ e = 2

\* The eligible entries of all archives of the job.
TotalEligible == Cardinality(EligibleKeys)

\* C10: the entry count of an archive is added to TotalPhotos once per archive
\* over the life of a job, so TotalPhotos never exceeds the number of eligible
\* entries of the job's archives, in memory or in the checkpoint.
C10_TotalCountedOncePerArchive ==
    /\ Ledger(job).TotalPhotos <= TotalEligible
    /\ disk.kind = "ok" => Ledger(disk.rec).TotalPhotos <= TotalEligible


\* The media entries of a Takeout archive and the archives among the Drive
\* files, listed by hand.
MediaEntryNames == {"Photos/IMG_1.jpg", "Photos/VID_2.MOV", "Photos/IMG_3.heic"}

ArchiveNames == {"takeout-001.zip", "takeout-002.ZIP", "takeout-004.zip"}

MediaKeys ==
    {LocalPathOf(job.Files[k].Name) \o ":" \o EntryName(n) :
        k \in {x \in FileIndexes : job.Files[x].Name \in ArchiveNames},
        n \in {x \in 1..NumEntries : EntryName(x) \in MediaEntryNames}}

\* C11: when ImportFiles has processed the archives of a job whose ledger was
\* new, TotalPhotos is the number of entries that are media and no directory;
\* no other entry is counted, and none is ever uploaded.
C11_TotalCountsMediaEntries ==
    /\ (outcome = "complete" /\ startTotal = 0) =>
            Ledger(job).TotalPhotos = Cardinality(MediaKeys)
    /\ \A a \in attempts : a.key \in MediaKeys

\* C11 witness: ImportFiles is through the archives of a job with a new
\* ledger, it issued uploads, and the archives hold entries that are not media.
C11_Witness ==
    /\ outcome = "complete"
    /\ startTotal = 0
    /\ attempts # {}
    /\ Ledger(job).TotalPhotos = Cardinality(MediaKeys)
    /\ Ledger(job).TotalPhotos > 0
    /\ \E n \in 1..NumEntries : EntryName(n) \notin MediaEntryNames


\* C12: Save is atomic with respect to the death of the process: whenever the
\* checkpoint file changes, also in a Save during which the process dies, Load
\* then returns the record that was there before or the record being saved,
\* and never fails on a truncated one.
C12_SaveIsAtomic ==
    [][disk' # disk =>
          /\ ~Load(disk').err
          /\ Load(disk').job \in {Load(disk).job, job'}]_vars


\* C13: while the checkpoint on disk is malformed, a coordinator that starts
\* stops on Load's error: the file is not replaced by the record of a new job
\* and no run begins.
C13_MalformedCheckpointStops ==
    [][Load(disk).err => (disk' = disk /\ pc' = "down")]_vars


\* C14: a run that ended because DownloadFile or ImportFiles failed, and not
\* because of cancellation, leaves the job on disk in status error with
\* LastError set.
C14_FailureIsPersistedAsError ==
    outcome = "error" =>
        /\ disk.kind = "ok"
        /\ disk.rec.Status = "error"
        /\ disk.rec.LastError # ""

\* C15: a CLI run that ended because of cancellation leaves the job on disk
\* in status cancelled.
C15_CancelledIsPersisted ==
    outcome = "cancelled" => (disk.kind = "ok" /\ disk.rec.Status = "cancelled")

\* C16: when a run has ended because of cancellation, in either phase, the
\* checkpoint on disk holds the in-memory job's progress: every FileUnit as it
\* is in memory and every key of UploadedFiles.
C16_CancelLeavesJobPersisted ==
    outcome = "cancelled" =>
        /\ disk.kind = "ok"
        /\ disk.rec.Files = job.Files
        /\ Ledger(disk.rec).UploadedFiles = Ledger(job).UploadedFiles


\* A job in status downloading or uploading is on disk.
UnfinishedOnDisk ==
    disk.kind = "ok" /\ disk.rec.Status \in {"downloading", "uploading"}

\* C17: a process that starts on a persisted job in status downloading or
\* uploading and resumes it works on the persisted record itself (id, files
\* with their flags, ledger) unless the user declines and a new job with
\* another id is made; while a process runs, a file whose Downloaded flag is
\* set is not downloaded again (its FileUnit and its local file stay as they
\* are), and ImportFiles starts on the ledger the job holds.
C17_ResumeContinuesInPlace ==
    [][/\ (pc = "down" /\ pc' = "run" /\ UnfinishedOnDisk) =>
              (job' = disk.rec \/ job'.ID # disk.rec.ID)
       /\ pc # "down" =>
              \A k \in FileIndexes :
                  job.Files[k].Downloaded =>
                      /\ job'.Files[k] = job.Files[k]
                      /\ fs'[job.Files[k].LocalPath] = fs[job.Files[k].LocalPath]
       /\ (pc = "dl" /\ pc' = "zip") =>
              /\ Ledger(job').UploadedFiles = Ledger(job).UploadedFiles
              /\ Ledger(job').UploadedPhotos = Ledger(job).UploadedPhotos]_vars

\* C17 witness: the second process resumed the job of the first, passed the
\* download loop and began ImportFiles on the keys the first had recorded.
C17_Witness ==
    /\ runs = 2
    /\ job.ID = 1
    /\ pc = "zip"
    /\ startKeys # {}
    /\ \A k \in FileIndexes : job.Files[k].Downloaded


\* DownloadFile has returned an error other than cancellation: the call that
\* sent the request is over and the run has ended with it.
FailedDownload == req.sent /\ pc \in {"down", "app"}

\* The job on disk is in status complete.
CompletePersisted == disk.kind = "ok" /\ disk.rec.Status = "complete"

\* C21: when no download fails, no cancellation occurs and the process is
\* started again after every death (no process dies when the bound on the
\* number of processes leaves no other to start), the job eventually is on
\* disk in status complete.
C21_EventuallyComplete ==
    ([]~FailedDownload /\ []~cancelled /\ [](outcome = "crashed" => runs < MaxRuns))
        => <>CompletePersisted

\* C22: when DownloadFile asked for a range from an offset > 0 and the answer
\* is not the partial content (status 206), in particular when it is the whole
\* file with status 200, DownloadFile returns a failure and the local file
\* stays as it was.
C22_RangeNeedsPartialContent ==
    [][(req' # req /\ req'.sent /\ req'.range /\ req'.status # 206) =>
          /\ FailedDownload'
          /\ fs' = fs]_vars

\* The coordinator is about to call DownloadFile for file i, whose local file
\* exists and holds at least Size > 0 bytes.
CallOnCompleteFile ==
    /\ pc = "dl"
    /\ ~cancelled
    /\ i <= Len(job.Files)
    /\ NeedsDownload(job.Files[i])
    /\ job.Files[i].Size > 0
    /\ LocalFile(i).exists
    /\ Len(LocalFile(i).data) >= job.Files[i].Size

\* C23: a DownloadFile call that finds the local file's length >= Size > 0
\* sends no request to the remote store, leaves the local files as they are,
\* sets Downloaded and returns success: the coordinator goes on to the next
\* file (unless the process dies saving the job).
C23_CompleteFileNeedsNoRequest ==
    [][(CallOnCompleteFile /\ req' # req /\ req'.file = i) =>
          /\ ~req'.sent
          /\ fs' = fs
          /\ job'.Files[i].Downloaded
          /\ job'.Files[i].BytesDownloaded = Len(LocalFile(i).data)
          /\ \/ outcome' = "crashed"
             \/ pc' = "dl" /\ i' = i + 1]_vars

\* C23 witness: DownloadFile has returned for a file it found complete on
\* disk though its flag was not set; no request was sent and the flag is set.
C23_Witness ==
    /\ pc = "dl"
    /\ req.file # 0
    /\ ~req.sent
    /\ ~req.flagged
    /\ i = req.file + 1
    /\ job.Files[req.file].Downloaded
    /\ job.Files[req.file].Size > 0
    /\ Len(LocalFile(req.file).data) >= job.Files[req.file].Size

\* C24: every request DownloadFile makes starts at the length the local file
\* has then (0 when there is none): the Range header is sent exactly when that
\* length is > 0, and the local file is then opened for append exactly when
\* the length is > 0 and created or truncated otherwise.
C24_RequestStartsAtFileLength ==
    [][(pc = "dl" /\ req' # req /\ req'.sent) =>
          LET st == LocalFile(i)
              len == IF st.exists THEN Len(st.data) ELSE 0
          IN  /\ req'.file = i
              /\ req'.start = len
              /\ req'.range = (len > 0)
              /\ pc' = "read" =>
                    fs'[LocalPathOf(job.Files[i].Name)] =
                        [exists |-> TRUE, data |-> IF len > 0 THEN st.data ELSE <<>>]]_vars

\* C24 witness: a resumed download in its copy loop: the request carried a
\* Range header from the length of the partial file, which was kept.
C24_Witness ==
    /\ pc = "read"
    /\ req.sent
    /\ req.range
    /\ req.start > 0
    /\ req.status = 206
    /\ LocalFile(i).data = SubSeq(Src(job.Files[i].DriveID), 1, req.start)

\* C25: when cancellation is seen in DownloadFile's copy loop, no further chunk
\* is read or written, the partial local file stays, Downloaded is not set,
\* and the run ends as cancelled and not as failed (unless the process dies).
C25_CancelStopsDownload ==
    [][(pc = "read" /\ cancelled) =>
          /\ fs' = fs
          /\ job'.Files = job.Files
          /\ ~job'.Files[i].Downloaded
          /\ pc' = "down"
          /\ outcome' \in {"cancelled", "crashed"}
          /\ ~FailedDownload']_vars

\* C25 witness: the first run was cancelled in the copy loop of a file, whose
\* partial local file is there and whose flag is not set.
C25_Witness ==
    /\ outcome = "cancelled"
    /\ runs = 1
    /\ \E k \in FileIndexes :
          /\ ~job.Files[k].Downloaded
          /\ LocalFile(k).exists
          /\ Len(LocalFile(k).data) = 1
          /\ job.Files[k].BytesDownloaded = 1

\* The keys whose upload the current ImportFiles call has issued.
AttemptedKeys == {a.key : a \in attempts}

\* C26: an upload that fails does not end ImportFiles: the job, the checkpoint
\* and the run's outcome stay as they are and the loop goes on to the next
\* entry; when ImportFiles has returned success, every eligible entry of every
\* archive that was not recorded at its start has been attempted.
C26_UploadFailureIsAbsorbed ==
    /\ [][(lastUp' # lastUp /\ lastUp'.resp \in {"rejected", "neterr"}) =>
              /\ job' = job
              /\ disk' = disk
              /\ outcome' = outcome
              /\ IF e < Len(PhotoFiles)
                 THEN pc' = "entry" /\ i' = i /\ e' = e + 1
                 ELSE pc' = "zip" /\ i' = i + 1]_vars
    /\ [](outcome = "complete" => EligibleKeys \ startKeys \subseteq AttemptedKeys)

\* C26 witness: ImportFiles has returned success although the upload of the
\* first entry of the first archive failed; entries after it, in the same
\* archive and in a later one, were uploaded.
C26_Witness ==
    /\ outcome = "complete"
    /\ Len(job.Files) >= 2
    /\ LET first == FileID(job.Files[1].LocalPath, PhotoFiles[1])
       IN  /\ [key |-> first, ok |-> FALSE] \in attempts
           /\ first \notin Keys(job)
           /\ Keys(job) = EligibleKeys \ {first}

AllDownloaded(s) == \A k \in 1..Len(s.Files) : s.Files[k].Downloaded

\* C29: the upload phase does not start before the download phase is over: a
\* job in status uploading or complete, in memory or on disk, has every
\* FileUnit downloaded; so has the job while ImportFiles runs, and whenever an
\* upload is issued.
C29_UploadAfterAllDownloads ==
    /\ [](job.Status \in {"uploading", "complete"} => AllDownloaded(job))
    /\ [](disk.rec.Status \in {"uploading", "complete"} => AllDownloaded(disk.rec))
    /\ [](pc \in {"zip", "entry"} => AllDownloaded(job))
    /\ [][(lastUp' # lastUp /\ lastUp'.resp # "none") =>
              AllDownloaded(job) /\ job.Status = "uploading"]_vars

\* C29 witness: the first run has downloaded every file and is uploading the
\* entries of an archive.
C29_Witness ==
    /\ runs = 1
    /\ pc = "entry"
    /\ job.Status = "uploading"
    /\ attempts # {}
    /\ Len(job.Files) = NumFiles
    /\ AllDownloaded(job)
    /\ \A k \in FileIndexes : LocalFile(k).exists

\* The keys recorded in job image s that the checkpoint does not hold.
Unrecorded(s, d) == Keys(s) \ Keys(Load(d).job)

\* C30: during ImportFiles the keys that are in the in-memory UploadedFiles
\* and not in the checkpoint are never more than the checkpoint cadence, also
\* after a step in which the process dies: a crash loses at most that many
\* uploaded entries.
C30_CrashLosesAtMostCadence ==
    [][(pc = "zip" \/ pc = "entry") =>
          Cardinality(Unrecorded(job', disk')) <= SaveCadence]_vars

\* A step of the GUI worker goroutine, which needs no action of the user.
WorkerStep == DownloadLoopCall \/ UploadBegin \/ ImportDone \/ WorkerPanic

\* C18: in the GUI application, once the app was restarted on a persisted job
\* in status downloading or uploading, the import goes on without a new file
\* selection: as long as the loaded job is unfinished a step of the worker is
\* possible.
C18_RestartContinuesImport ==
    (/\ ui = "gui"
     /\ pc # "down"
     /\ astate = "loaded"
     /\ job.Status \in {"downloading", "uploading"})
        => ENABLED WorkerStep

\* C19: after ResetState has returned success and until the next selection
\* starts a job, there is no job record on disk and the application holds no
\* job, also when the worker was running during the reset.
C19_ResetLeavesNoJob ==
    reset = "done" => (disk.kind = "absent" /\ astate = "nil")

\* C31: a process that starts while the checkpoint holds a job in status
\* complete does not take that job up again: the job it works on is a new one,
\* made from a new selection.
C31_CompleteJobIsNotRerun ==
    [][(pc = "down" /\ pc' = "run" /\ disk.kind = "ok" /\ disk.rec.Status = "complete") =>
          job'.ID # disk.rec.ID]_vars

\* The GUI's worker goroutine is running.
WorkerActive == ui = "gui" /\ pc \in {"dl", "read", "zip", "entry"}

\* C32: while the GUI's import worker runs it is the only writer of the job
\* and of the checkpoint file: every step that changes either of them is a
\* step of the worker.
C32_WorkerIsOnlyWriter ==
    [][(WorkerActive /\ (job' # job \/ disk' # disk)) => WorkerStep]_vars

\* C33: in the GUI, once CancelImport has put the job in status cancelled
\* while the worker runs, the worker makes no further step and the status
\* stays cancelled until the user starts the import again.
C33_GuiCancelStopsWorker ==
    [][(WorkerActive /\ job.Status = "cancelled") =>
          /\ ~WorkerStep
          /\ job'.Status = "cancelled"]_vars

\* C34: a job in status complete, in memory or in the checkpoint, has an empty
\* LastError, also when an earlier run of the job had failed.
C34_CompleteHasNoLastError ==
    /\ job.Status = "complete" => job.LastError = ""
    /\ disk.rec.Status = "complete" => disk.rec.LastError = ""

\* The Drive ids of the files of job image s, in order.
IDs(s) == [k \in 1..Len(s.Files) |-> s.Files[k].DriveID]

\* C35: no two FileUnits of a job have the same DriveID; a StartImport call
\* leaves every FileUnit the job had as it was, progress included, and adds
\* after them the selected ids that were not there, in the order selected.
C35_AddFileKeepsListUnique ==
    /\ [](Cardinality(Range(IDs(job))) = Len(job.Files))
    /\ [][(starts' # starts /\ starts' > 0 /\ job'.ID = job.ID) =>
              /\ SubSeq(job'.Files, 1, Len(job.Files)) = job.Files
              /\ \E sel \in Selections :
                    IDs(job') = IDs(job) \o SelectSeq(sel, LAMBDA id : id \notin Range(IDs(job)))]_vars

\* C35 witness: a second StartImport selected a new file and a file that was
\* there already with download progress; the job holds each once, the old one
\* first and unchanged.
C35_Witness ==
    /\ starts = 2
    /\ pc = "dl"
    /\ i = 1
    /\ IDs(job) = <<1, 2>>
    /\ job.Files[1].LocalPath # ""
    /\ job.Files[1].BytesDownloaded > 0
    /\ job.Files[2].LocalPath = ""

\* C36: UploadedPhotos is never more than TotalPhotos, in the job in memory
\* and in the checkpoint, over crashes and resumes.
C36_UploadedWithinTotal ==
    /\ Ledger(job).UploadedPhotos <= Ledger(job).TotalPhotos
    /\ Ledger(disk.rec).UploadedPhotos <= Ledger(disk.rec).TotalPhotos

\* C36 witness: a resumed run that has uploaded further entries; the
\* checkpoint and the job both hold uploads.
C36_Witness ==
    /\ runs = 2
    /\ job.ID = 1
    /\ pc = "entry"
    /\ disk.kind = "ok"
    /\ Ledger(disk.rec).UploadedPhotos > 0
    /\ Ledger(job).UploadedPhotos > Ledger(disk.rec).UploadedPhotos

\* C37: a key gets into UploadedFiles only by an upload of that entry that
\* was answered with success or duplicate; an upload that failed leaves the
\* ledger as it was, so the entry is not skipped by a later run.
C37_OnlyUploadedIsRecorded ==
    /\ [][(pc # "down" /\ Keys(job') # Keys(job)) =>
              /\ lastUp' # lastUp
              /\ lastUp'.resp \in {"created", "duplicate"}
              /\ Keys(job') = Keys(job) \cup {lastUp'.key}]_vars
    /\ [][(lastUp' # lastUp /\ lastUp'.resp \in {"rejected", "neterr"}) =>
              /\ Ledger(job') = Ledger(job)
              /\ lastUp'.key \notin Keys(job')
              /\ lastUp'.key \notin uploadedSet']_vars

\* C37 witness: the second run has uploaded and recorded an entry whose upload
\* had failed in the first run, which recorded others.
C37_Witness ==
    /\ runs = 2
    /\ job.ID = 1
    /\ startKeys # {}
    /\ lastUp.resp = "created"
    /\ lastUp.key \notin startKeys
    /\ lastUp.key \in Keys(job)
    /\ lastUp.key = FileID(job.Files[1].LocalPath, PhotoFiles[1])

\* The user, or a cleaner of the application data directory, removes a
\* downloaded file while no import is running (the download directory of
\* config.go:162-172 is an ordinary directory).
RemoveLocalFile ==
    /\ pc = "down"
    /\ \E p \in Paths :
          /\ fs[p].exists
          /\ fs' = [fs EXCEPT ![p] = NoFile]
    /\ UNCHANGED <<disk, job, pc, i, e, body, cancelled, uploadedSet, runs, made, gui,
                   outcome, req, upGhost>>

NextEnv ==
    \/ Next
    \/ RemoveLocalFile

SpecEnv == Init /\ [][NextEnv]_vars

\* os.Stat's size of the local file of a FileUnit in the file system f; 0
\* when there is none.
PhysicalLength(f, file) ==
    LET path == LocalPathOf(file.Name)
    IN  IF f[path].exists THEN Len(f[path].data) ELSE 0

\* A step in which a DownloadFile call for file i returns: at once from the
\* size test or a refused request, or from the copy loop.
DownloadFileReturns ==
    \/ pc = "dl" /\ req' # req /\ req'.file = i /\ pc' # "read"
    \/ pc = "read" /\ pc' # "read"

\* C39: when DownloadFile returns, with success, failure or cancellation,
\* BytesDownloaded of its FileUnit is the length of the local file, also when
\* the call found no local file while the FileUnit carried a count.
C39_CountIsFileLength ==
    [][DownloadFileReturns =>
          job'.Files[i].BytesDownloaded = PhysicalLength(fs', job'.Files[i])]_vars

\* jobState.Save() returns an error before anything is written (statePath,
\* os.MkdirAll or the open inside os.WriteFile fails, state.go:78-95): the job
\* in memory is s and the checkpoint stays as it was.
SaveFails(s) ==
    /\ job' = s
    /\ disk' = disk

\* runImport, importer.go:538-539, with a Save that fails: the value Save
\* returns is not looked at and the loop goes on to the next file.
ReadEOFSaveFails ==
    /\ pc = "read"
    /\ ~cancelled
    /\ body = <<>>
    /\ SaveFails([job EXCEPT !.Files[i].Downloaded = TRUE])
    /\ pc' = "dl"
    /\ i' = i + 1
    /\ body' = <<>>
    /\ req' = NoReq
    /\ UNCHANGED <<fs, e, uploadedSet, cancelled, outcome, runs, made, gui, upGhost>>

\* runImport, importer.go:562-565, with a Save that fails: runImport returns
\* nil and main prints that the import is complete.
ImportDoneSaveFails ==
    /\ pc = "zip"
    /\ HoldsJob
    /\ i > Len(job.Files)
    /\ SaveFails([job EXCEPT !.Status = "complete"])
    /\ Halt("complete")
    /\ UNCHANGED <<fs, runs, made, gui, req, upGhost>>

NextSaveErr ==
    \/ Next
    \/ ReadEOFSaveFails
    \/ ImportDoneSaveFails

SpecSaveErr == Init /\ [][NextSaveErr]_vars

\* C40: a run ends as complete only with the checkpoint of the complete job
\* written, and the download loop goes on to the next file only with the
\* finished file's checkpoint written: a Save that fails stops the run.
C40_CompleteOnlyIfSaved ==
    /\ [](outcome = "complete" => disk = Save(job) /\ disk.rec.Status = "complete")
    /\ [][(pc = "read" /\ pc' = "dl") => disk' = Save(job')]_vars

\* C38: two FileUnits of a job are never given the same local file: the paths
\* DownloadFile computes for them (downloader.go:32) differ.
C38_DistinctFilesDistinctPaths ==
    \A k, m \in FileIndexes :
        k # m => LocalPathOf(job.Files[k].Name) # LocalPathOf(job.Files[m].Name)

\* The transitions of the job state machine.
StatusTransitions ==
    {<<"idle", "downloading">>, <<"downloading", "uploading">>,
     <<"uploading", "complete">>,
     <<"downloading", "error">>, <<"downloading", "cancelled">>,
     <<"uploading", "error">>, <<"uploading", "cancelled">>}

\* C20: while a process works on a job, the job's status changes only along
\* the transitions of the job state machine; it never goes from uploading or
\* complete back to downloading.
C20_StatusFollowsStateMachine ==
    [][(pc # "down" /\ job'.ID = job.ID /\ job'.Status # job.Status) =>
          <<job.Status, job'.Status>> \in StatusTransitions]_vars

====
